---------------------------- MODULE Spec2Model ----------------------------
(***************************************************************************)
(* A model of the multi-agent guardrails service:                          *)
(*   - guardrails/action_guardrail.py : ActionGuardrail (policy load,      *)
(*     is_action_illegal, the file_reader and database_query validators)   *)
(*   - guardrails/input_guardrail.py  : is_text_malicious,                 *)
(*     is_image_malicious                                                  *)
(*   - agents/*.py                    : RouterAgent and its two agents     *)
(*   - main.py                        : start-up and the /invoke handler   *)
(*                                                                         *)
(* Python strings whose content is inspected (paths, queries, rule         *)
(* strings, prompts) are sequences of one-character strings.  Tool names   *)
(* are only compared for equality and are TLA+ strings.                    *)
(***************************************************************************)
EXTENDS Naturals, Sequences, FiniteSets

(***************************************************************************)
(* Bounds of the model.                                                    *)
(***************************************************************************)
\* longest path / query string an action carries
MaxLen == 2
\* number of concurrent /invoke request handlers
NumHandlers == 2
\* longest rule list a validator is called with directly
MaxRules == 2

(***************************************************************************)
(* Python strings.                                                         *)
(***************************************************************************)
LowerLetters ==
  << "a", "b", "c", "d", "e", "f", "g", "h", "i", "j", "k", "l", "m",
     "n", "o", "p", "q", "r", "s", "t", "u", "v", "w", "x", "y", "z" >>

UpperLetters ==
  << "A", "B", "C", "D", "E", "F", "G", "H", "I", "J", "K", "L", "M",
     "N", "O", "P", "Q", "R", "S", "T", "U", "V", "W", "X", "Y", "Z" >>

UpperChar(c) ==
  IF \E i \in 1..Len(LowerLetters) : LowerLetters[i] = c
  THEN UpperLetters[CHOOSE i \in 1..Len(LowerLetters) : LowerLetters[i] = c]
  ELSE c

LowerChar(c) ==
  IF \E i \in 1..Len(UpperLetters) : UpperLetters[i] = c
  THEN LowerLetters[CHOOSE i \in 1..Len(UpperLetters) : UpperLetters[i] = c]
  ELSE c

\* str.upper()
StrUpper(s) == [i \in 1..Len(s) |-> UpperChar(s[i])]

\* str.lower()
StrLower(s) == [i \in 1..Len(s) |-> LowerChar(s[i])]

\* s.endswith(suffix)
EndsWith(s, suffix) ==
  /\ Len(suffix) <= Len(s)
  /\ SubSeq(s, Len(s) - Len(suffix) + 1, Len(s)) = suffix

\* s.startswith(prefix)
StartsWith(s, prefix) ==
  /\ Len(prefix) <= Len(s)
  /\ SubSeq(s, 1, Len(prefix)) = prefix

\* sub in s
Contains(s, sub) ==
  /\ Len(sub) <= Len(s)
  /\ \E i \in 0..(Len(s) - Len(sub)) : SubSeq(s, i + 1, i + Len(sub)) = sub

\* all sequences over S of length at most n
RECURSIVE SeqsUpTo(_, _)
SeqsUpTo(S, n) ==
  IF n = 0 THEN { <<>> }
  ELSE LET shorter == SeqsUpTo(S, n - 1)
       IN  shorter \cup { Append(s, c) : s \in { t \in shorter : Len(t) = n - 1 }, c \in S }

(***************************************************************************)
(* Python values found under a key of a dict.                              *)
(***************************************************************************)
\* the key is not in the dict
Absent == [kind |-> "absent", chars |-> <<>>]
\* the key maps to None
PyNone == [kind |-> "none", chars |-> <<>>]
\* the key maps to a non-zero number (truthy, and not a string)
PyInt == [kind |-> "int", chars |-> <<>>]
\* the key maps to a string
PyStr(s) == [kind |-> "str", chars |-> s]

\* bool(v), with an absent key read through dict.get(key) as None
Truthy(v) ==
  \/ v.kind = "int"
  \/ v.kind = "str" /\ v.chars # <<>>

\* the outcomes of a call: the returned bool, or the exception raised
RetTrue == "True"
RetFalse == "False"
AttributeError == "AttributeError"


(***************************************************************************)
(* Actions: {"tool": ..., "parameters": {...}}.                            *)
(***************************************************************************)
\* the tool names that occur in the sources
ToolNames ==
  { "file_reader", "database_query", "web_search", "creative_writing",
    "shell_executor" }

\* the value under "tool": absent, None or a string (possibly empty)
ToolAbsent == [kind |-> "absent", name |-> ""]
ToolNone == [kind |-> "none", name |-> ""]
ToolStr(n) == [kind |-> "str", name |-> n]

\* bool(action.get("tool"))
ToolTruthy(t) == t.kind = "str" /\ t.name # ""

\* the value under "parameters": absent, None, a list, or a dict of which
\* the keys "path", "query" and one other key are tracked
ParamsAbsent == [kind |-> "absent", path |-> Absent, query |-> Absent, other |-> Absent]
ParamsNone == [kind |-> "none", path |-> Absent, query |-> Absent, other |-> Absent]
ParamsList == [kind |-> "list", path |-> Absent, query |-> Absent, other |-> Absent]
ParamsDict(p, q, o) == [kind |-> "dict", path |-> p, query |-> q, other |-> o]

MkAction(t, ps) == [tool |-> t, parameters |-> ps]

(***************************************************************************)
(* The policy: what yaml.safe_load returned for config/rules.yaml.         *)
(***************************************************************************)
\* a per-tool rule record; an absent key reads as the default []
NoEntry ==
  [kind |-> "absent", keys |-> {}, disallowed_extensions |-> <<>>,
   allowed_paths |-> <<>>, forbidden_keywords |-> <<>>]

RuleDict(ks, exts, paths, kws) ==
  [kind |-> "dict", keys |-> ks, disallowed_extensions |-> exts,
   allowed_paths |-> paths, forbidden_keywords |-> kws]

EmptyRuleDict == RuleDict({}, <<>>, <<>>, <<>>)

FileReaderRules(exts, paths) ==
  RuleDict({"disallowed_extensions", "allowed_paths"}, exts, paths, <<>>)

DatabaseQueryRules(kws) == RuleDict({"forbidden_keywords"}, <<>>, <<>>, kws)

\* a rule record for a tool without a validator
OtherRules == RuleDict({"other"}, <<>>, <<>>, <<>>)

\* a rule record that carries every rule key: each validator would deny every
\* action under it (the empty suffix ends and the empty keyword is in every
\* string, and no path prefix is listed)
DenyAllRules ==
  RuleDict({"disallowed_extensions", "allowed_paths", "forbidden_keywords", "other"},
           << <<>> >>, <<>>, << <<>> >>)

\* rules.get(key, [])
RuleGet(rules, key) ==
  CASE key = "disallowed_extensions" -> rules.disallowed_extensions
    [] key = "allowed_paths" -> rules.allowed_paths
    [] key = "forbidden_keywords" -> rules.forbidden_keywords

\* mutant: the validators also run for a tool without a rule entry
RuleTruthy_Always(rules) == TRUE

\* bool(tool_rules): None and the empty dict are falsy
RuleTruthy(rules) == rules.kind = "dict" /\ rules.keys # {}

NoEntries == [t \in ToolNames |-> NoEntry]

\* the document: a mapping, or what else safe_load may return
PolicyDict(hasTools, tools, hasRules, entries) ==
  [kind |-> "dict",
   allowed_tools |-> [present |-> hasTools, items |-> tools],
   tool_rules |-> [present |-> hasRules, entries |-> entries]]

\* self.rules = {}
EmptyPolicy == PolicyDict(FALSE, {}, FALSE, NoEntries)

\* safe_load of an empty file
NoneDoc == [EmptyPolicy EXCEPT !.kind = "none"]

\* safe_load of a document that is a sequence or a scalar
ListDoc == [EmptyPolicy EXCEPT !.kind = "list"]

\* before __init__ has assigned self.rules
Unset == [EmptyPolicy EXCEPT !.kind = "unset"]

(***************************************************************************)
(* ActionGuardrail._validate_file_reader                                   *)
(***************************************************************************)
\* mutant: the suffix is matched without regard to letter case
HasDisallowedExtension_IgnoreCase(filepath, disallowed_extensions) ==
  \E i \in 1..Len(disallowed_extensions) :
    EndsWith(StrLower(filepath), StrLower(disallowed_extensions[i]))

\* any(filepath.endswith(ext) for ext in disallowed_extensions)
HasDisallowedExtension(filepath, disallowed_extensions) ==
  \E i \in 1..Len(disallowed_extensions) :
    EndsWith(filepath, disallowed_extensions[i])

\* any(filepath.startswith(p) for p in allowed_paths)
InAllowedPath(filepath, allowed_paths) ==
  \E i \in 1..Len(allowed_paths) : StartsWith(filepath, allowed_paths[i])

validate_file_reader(parameters, rules) ==
  IF parameters.kind # "dict" THEN AttributeError
  ELSE
    LET filepath == parameters.path
        disallowed_extensions == RuleGet(rules, "disallowed_extensions")
        allowed_paths == RuleGet(rules, "allowed_paths")
    IN  IF ~Truthy(filepath) THEN RetTrue
        ELSE IF filepath.kind # "str" /\ disallowed_extensions # <<>>
          THEN AttributeError
        ELSE IF filepath.kind = "str"
                /\ HasDisallowedExtension(filepath.chars, disallowed_extensions)
          THEN RetTrue
        ELSE IF filepath.kind # "str" /\ allowed_paths # <<>>
          THEN AttributeError
        ELSE IF ~(filepath.kind = "str"
                  /\ InAllowedPath(filepath.chars, allowed_paths))
          THEN RetTrue
        ELSE RetFalse

(***************************************************************************)
(* ActionGuardrail._validate_database_query                                *)
(***************************************************************************)
\* any(keyword in query for keyword in forbidden_keywords)
HasForbiddenKeyword(query, forbidden_keywords) ==
  \E i \in 1..Len(forbidden_keywords) : Contains(query, forbidden_keywords[i])

\* parameters.get("query", "").upper()
UpperQuery(raw) == StrUpper(raw)

validate_database_query(parameters, rules) ==
  IF parameters.kind # "dict" THEN AttributeError
  ELSE
    LET raw == IF parameters.query.kind = "absent" THEN PyStr(<<>>)
               ELSE parameters.query
    IN  IF raw.kind # "str" THEN AttributeError
        ELSE LET query == UpperQuery(raw.chars)
                 forbidden_keywords == RuleGet(rules, "forbidden_keywords")
             IN  IF query = <<>> THEN RetTrue
                 ELSE IF HasForbiddenKeyword(query, forbidden_keywords)
                   THEN RetTrue
                 ELSE RetFalse

(***************************************************************************)
(* ActionGuardrail.is_action_illegal                                       *)
(***************************************************************************)
\* mutant: a policy without an allow-list allows every tool
AllowedTools_DefaultAll(rules) ==
  IF rules.allowed_tools.present /\ rules.allowed_tools.items # {}
  THEN rules.allowed_tools.items
  ELSE ToolNames

\* self.rules.get("allowed_tools", [])
AllowedTools(rules) ==
  IF rules.allowed_tools.present THEN rules.allowed_tools.items ELSE {}

\* self.rules.get("tool_rules", {}).get(tool_name)
ToolRules(rules, tool_name) ==
  IF rules.tool_rules.present THEN rules.tool_rules.entries[tool_name]
  ELSE NoEntry

\* mutant: a tool that has rules but no validator is denied
Dispatch_DenyUnknown(tool_name, parameters, tool_rules) ==
  IF tool_name = "file_reader"
    THEN validate_file_reader(parameters, tool_rules)
  ELSE IF tool_name = "database_query"
    THEN validate_database_query(parameters, tool_rules)
  ELSE RetTrue

\* the validator the if-chain selects for a tool that has rules
Dispatch(tool_name, parameters, tool_rules) ==
  IF tool_name = "file_reader"
    THEN validate_file_reader(parameters, tool_rules)
  ELSE IF tool_name = "database_query"
    THEN validate_database_query(parameters, tool_rules)
  ELSE RetFalse

is_action_illegal(rules, action) ==
  LET tool_name == action.tool
      parameters == IF action.parameters.kind = "absent"
                    THEN ParamsDict(Absent, Absent, Absent)
                    ELSE action.parameters
  IN  IF ~ToolTruthy(tool_name) THEN RetTrue
      ELSE IF rules.kind # "dict" THEN AttributeError
      ELSE IF tool_name.name \notin AllowedTools(rules) THEN RetTrue
      ELSE LET tool_rules == ToolRules(rules, tool_name.name)
           IN  IF ~RuleTruthy(tool_rules) THEN RetFalse
               ELSE Dispatch(tool_name.name, parameters, tool_rules)

\* the validator a call of is_action_illegal reaches, if any
ValidatorReached(rules, action) ==
  IF /\ ToolTruthy(action.tool)
     /\ rules.kind = "dict"
     /\ action.tool.name \in AllowedTools(rules)
     /\ RuleTruthy(ToolRules(rules, action.tool.name))
     /\ action.tool.name \in { "file_reader", "database_query" }
  THEN action.tool.name
  ELSE "none"

(***************************************************************************)
(* ActionGuardrail.__init__                                                *)
(***************************************************************************)
\* config/rules.yaml as the constructor finds it
SourceMissing == [file |-> "missing", doc |-> Unset]
SourceUnreadable == [file |-> "unreadable", doc |-> Unset]
SourceBadYaml == [file |-> "bad_yaml", doc |-> Unset]
SourceParsed(doc) == [file |-> "parsed", doc |-> doc]

\* whether the constructor returns; open() raises FileNotFoundError for a
\* missing file and another OSError for one it cannot read, and only
\* FileNotFoundError and yaml.YAMLError are caught
InitRaises(src) == src.file = "unreadable"

\* self.rules once the constructor has returned
InitRules(src) ==
  CASE src.file = "missing" -> EmptyPolicy
    [] src.file = "bad_yaml" -> EmptyPolicy
    [] src.file = "parsed" -> src.doc
    [] OTHER -> Unset

(***************************************************************************)
(* guardrails/input_guardrail.py                                           *)
(***************************************************************************)
\* what a Gemini call does: error = generate_content or response.text
\* raised (timeout, network error, blocked prompt), unsafe = the reply text
\* contains 'unsafe', blocked = prompt_feedback.block_reason is set
ModelReplies == [error : BOOLEAN, unsafe : BOOLEAN, blocked : BOOLEAN]

\* what fetching and opening the image does
FetchOutcomes == { "request_exception", "not_an_image", "ok" }

\* mutant: a failed moderation call lets the text pass
is_text_malicious_FailOpen(reply) ==
  IF reply.error THEN FALSE
  ELSE IF reply.unsafe THEN TRUE
  ELSE IF reply.blocked THEN TRUE
  ELSE FALSE

is_text_malicious(reply) ==
  IF reply.error THEN TRUE
  ELSE IF reply.unsafe THEN TRUE
  ELSE IF reply.blocked THEN TRUE
  ELSE FALSE

is_image_malicious(image_url, fetch, reply) ==
  IF ~Truthy(image_url) THEN FALSE
  ELSE IF fetch = "request_exception" THEN TRUE
  ELSE IF fetch = "not_an_image" THEN TRUE
  ELSE IF reply.error THEN TRUE
  ELSE IF reply.unsafe THEN TRUE
  ELSE IF reply.blocked THEN TRUE
  ELSE FALSE

(***************************************************************************)
(* agents/: ResearchAgent, CreativeAgent, RouterAgent                      *)
(***************************************************************************)
\* mutant: the research agent proposes a database query
ResearchAgent_run_Database(prompt) ==
  MkAction(ToolStr("database_query"), ParamsDict(Absent, PyStr(prompt), Absent))

\* ResearchAgent.run: {"tool": "web_search", "parameters": {"query": prompt}}
ResearchAgent_run(prompt) ==
  MkAction(ToolStr("web_search"), ParamsDict(Absent, PyStr(prompt), Absent))

\* CreativeAgent.run: {"tool": "creative_writing", "parameters": {"task": prompt}}
CreativeAgent_run(prompt) ==
  MkAction(ToolStr("creative_writing"), ParamsDict(Absent, Absent, PyStr(prompt)))

creative_keywords ==
  << << "w", "r", "i", "t", "e" >>,
     << "c", "r", "e", "a", "t", "e" >>,
     << "t", "e", "l", "l", " ", "m", "e", " ", "a" >>,
     << "p", "o", "e", "m" >>,
     << "j", "o", "k", "e" >>,
     << "s", "t", "o", "r", "y" >> >>

\* RouterAgent.route
route(prompt) ==
  LET prompt_lower == StrLower(prompt)
  IN  IF \E i \in 1..Len(creative_keywords) :
           Contains(prompt_lower, creative_keywords[i])
      THEN CreativeAgent_run(prompt)
      ELSE ResearchAgent_run(prompt)

\* main.py: the agent name derived from the proposed tool
AgentName(proposed_action) ==
  LET tool_used == proposed_action.tool
  IN  IF tool_used = ToolStr("web_search") THEN "ResearchAgent"
      ELSE IF tool_used = ToolStr("creative_writing") THEN "CreativeAgent"
      ELSE "Unknown"

\* mutant: the handler does not act on the guardrail's verdict
GuardResponse_IgnoreVerdict(out) ==
  IF out = AttributeError THEN "500" ELSE "Success"

\* main.py: what the handler answers after the action guardrail's call
GuardResponse(out) ==
  IF out = AttributeError THEN "500"
  ELSE IF out = RetTrue THEN "403"
  ELSE "Success"

\* mutant: an evaluation consumes the tool's allow-list entry
RulesAfterEvaluation_Consume(rules, action) ==
  IF rules.kind = "dict" /\ action.tool.kind = "str"
  THEN [rules EXCEPT !.allowed_tools.items = @ \ { action.tool.name }]
  ELSE rules

\* self.rules after a call of is_action_illegal: the method and its
\* validators only read it
RulesAfterEvaluation(rules, action) == rules

(***************************************************************************)
(* Inputs of the model.                                                    *)
(***************************************************************************)
Handlers == 1..NumHandlers

\* the characters of paths, queries and rule strings
Chars == { "/", "a", "A" }

ParamStrings == SeqsUpTo(Chars, MaxLen)

ParamValues == { Absent, PyNone, PyInt } \cup { PyStr(s) : s \in ParamStrings }

\* the strings a rule list holds, and the rule lists of a policy
RuleStrings == { <<>>, << "/" >>, << "a" >>, << "A" >> }

\* parameters of an action: not a dict, or a dict with "path" or "query"
\* and possibly another key
ParamSet ==
  { ParamsAbsent, ParamsNone, ParamsList }
    \cup { ParamsDict(v, Absent, o) : v \in ParamValues, o \in { Absent, PyInt } }
    \cup { ParamsDict(Absent, v, o) : v \in ParamValues, o \in { Absent, PyInt } }

ToolValues ==
  { ToolAbsent, ToolNone, ToolStr("") }
    \cup { ToolStr(n) : n \in { "file_reader", "database_query", "web_search",
                                "shell_executor" } }

Actions == { MkAction(t, ps) : t \in ToolValues, ps \in ParamSet }

\* the prompts of /invoke requests
Prompts == { << "n", "e", "w", "s" >>, << "J", "o", "k", "e" >> }

\* the prompts the router is exercised with: empty, without a keyword, with
\* a keyword in mixed and in upper case, one letter short of a keyword, and
\* with a keyword inside a longer word
RoutePrompts ==
  { <<>>,
    << "n", "e", "w", "s" >>,
    << "J", "o", "k", "e" >>,
    << "P", "O", "E", "M" >>,
    << "j", "o", "k" >>,
    << "a", "s", "t", "o", "r", "y", "." >> }

\* image_url of a request: not given, or a URL
ImageUrls == { PyNone, PyStr(<< "u" >>) }

\* rule lists of the policies the guardrail is evaluated under
PolicyExtLists == { <<>>, << << "a" >> >>, << << "A" >>, <<>> >> }
PolicyPathLists == { <<>>, << << "/" >> >>, << << "a" >>, << "/" >> >> }
PolicyKeywordLists == { <<>>, << << "A" >> >>, << << "a" >> >> }

FileReaderEntries ==
  { NoEntry, EmptyRuleDict }
    \cup { FileReaderRules(e, p) : e \in PolicyExtLists, p \in PolicyPathLists }

DatabaseQueryEntries ==
  { NoEntry, EmptyRuleDict }
    \cup { DatabaseQueryRules(k) : k \in PolicyKeywordLists }

WebSearchEntries == { NoEntry, OtherRules, DenyAllRules }

AllowedToolSets ==
  { {}, { "web_search", "creative_writing" },
    { "web_search", "file_reader", "database_query" } }

Entries(fr, db, ws) ==
  [t \in ToolNames |->
     CASE t = "file_reader" -> fr
       [] t = "database_query" -> db
       [] t = "web_search" -> ws
       [] OTHER -> NoEntry]

GuardPolicies ==
  { PolicyDict(TRUE, s, TRUE, Entries(fr, db, ws)) :
      s \in AllowedToolSets, fr \in FileReaderEntries,
      db \in DatabaseQueryEntries, ws \in WebSearchEntries }
    \cup { PolicyDict(TRUE, s, FALSE, NoEntries) : s \in AllowedToolSets }

BadSources ==
  { SourceMissing, SourceUnreadable, SourceBadYaml, SourceParsed(NoneDoc),
    SourceParsed(ListDoc) }

GuardSources == BadSources \cup { SourceParsed(p) : p \in GuardPolicies }

\* the policies the request pipeline is run under
PipelinePolicies ==
  { PolicyDict(TRUE, { "web_search", "creative_writing" }, FALSE, NoEntries),
    PolicyDict(TRUE, { "web_search", "file_reader", "database_query" }, TRUE,
               Entries(FileReaderRules(<< << "a" >> >>, << << "/" >> >>),
                       DatabaseQueryRules(<< << "A" >> >>), OtherRules)) }

PipelineSources ==
  { SourceMissing, SourceUnreadable, SourceParsed(NoneDoc) }
    \cup { SourceParsed(p) : p \in PipelinePolicies }

\* rule lists the validators are called with directly
RuleLists == SeqsUpTo(RuleStrings, MaxRules)

(***************************************************************************)
(* State.                                                                  *)
(***************************************************************************)
VARIABLES
  source,           \* config/rules.yaml as the constructor finds it
  rules,            \* ActionGuardrail.rules of the shared instance
  action_guardrail, \* main.py: "unbuilt", "instance" or "None"
  router_agent,     \* main.py: "unbuilt", "instance" or "None"
  handler,          \* per request handler: its position, locals and the
                    \* calls it has made for the current request (steps)
  call,             \* the last direct call of a guardrail method
  loaded,           \* history: self.rules as __init__ left it
  seen              \* history: (action, outcome) of the handlers' evaluations

vars ==
  << source, rules, action_guardrail, router_agent, handler, call, loaded, seen >>

NoAction == MkAction(ToolAbsent, ParamsAbsent)

IdleHandler ==
  [pc |-> "idle", prompt |-> <<>>, image_url |-> PyNone,
   text_failed |-> FALSE, text_verdict |-> "none",
   image_failed |-> FALSE, image_verdict |-> "none",
   proposed |-> NoAction, agent_name |-> "none", guard |-> "none",
   status |-> "none", agent_action |-> NoAction,
   steps |-> <<>>, validator |-> "none"]

NoCall ==
  [fn |-> "none", action |-> NoAction, parameters |-> ParamsAbsent,
   rules |-> NoEntry, out |-> "none"]

InitWith(sources) ==
  /\ source \in sources
  /\ rules = Unset
  /\ action_guardrail = "unbuilt"
  /\ router_agent = "unbuilt"
  /\ handler = [h \in Handlers |-> IdleHandler]
  /\ call = NoCall
  /\ loaded = Unset
  /\ seen = {}

(***************************************************************************)
(* main.py: application initialization.                                    *)
(***************************************************************************)
Startup ==
  /\ action_guardrail = "unbuilt"
  /\ IF InitRaises(source)
       THEN /\ action_guardrail' = "None"
            /\ router_agent' = "None"
            /\ UNCHANGED << rules, loaded >>
       ELSE /\ action_guardrail' = "instance"
            /\ router_agent' = "instance"
            /\ rules' = InitRules(source)
            /\ loaded' = InitRules(source)
  /\ UNCHANGED << source, handler, call, seen >>

(***************************************************************************)
(* main.py: invoke_agent, one action per step of the handler.              *)
(***************************************************************************)
ReceiveFrom(h, prompts) ==
  /\ action_guardrail # "unbuilt"
  /\ handler[h].pc = "idle"
  /\ \E prompt \in prompts, image_url \in ImageUrls :
       handler' = [handler EXCEPT ![h] =
         IF action_guardrail = "None" \/ router_agent = "None"
         THEN [IdleHandler EXCEPT !.pc = "done", !.prompt = prompt,
                                  !.image_url = image_url, !.status = "503"]
         ELSE [IdleHandler EXCEPT !.pc = "text", !.prompt = prompt,
                                  !.image_url = image_url]]
  /\ UNCHANGED << source, rules, action_guardrail, router_agent, call, loaded, seen >>

Receive(h) == ReceiveFrom(h, Prompts)

\* mutant: a malicious text is logged but the request is not ended
TextCheck_NoRaise(h) ==
  /\ handler[h].pc = "text"
  /\ \E reply \in ModelReplies :
       LET malicious == is_text_malicious(reply)
       IN  handler' = [handler EXCEPT ![h] =
             [@ EXCEPT !.text_failed = reply.error,
                       !.text_verdict = IF malicious THEN RetTrue ELSE RetFalse,
                       !.steps = Append(@, "text"),
                       !.pc = "image"]]
  /\ UNCHANGED << source, rules, action_guardrail, router_agent, call, loaded, seen >>

TextCheck(h) ==
  /\ handler[h].pc = "text"
  /\ \E reply \in ModelReplies :
       LET malicious == is_text_malicious(reply)
       IN  handler' = [handler EXCEPT ![h] =
             [@ EXCEPT !.text_failed = reply.error,
                       !.text_verdict = IF malicious THEN RetTrue ELSE RetFalse,
                       !.steps = Append(@, "text"),
                       !.pc = IF malicious THEN "done" ELSE "image",
                       !.status = IF malicious THEN "400_text" ELSE @]]
  /\ UNCHANGED << source, rules, action_guardrail, router_agent, call, loaded, seen >>

\* the reply of the vision model matters only once the image was fetched
ImageCheck(h) ==
  /\ handler[h].pc = "image"
  /\ IF ~Truthy(handler[h].image_url)
       THEN handler' = [handler EXCEPT ![h].pc = "route"]
       ELSE \E fetch \in FetchOutcomes :
            \E reply \in IF fetch = "ok" THEN ModelReplies
                         ELSE { [error |-> FALSE, unsafe |-> FALSE, blocked |-> FALSE] } :
              LET malicious == is_image_malicious(handler[h].image_url, fetch, reply)
              IN  handler' = [handler EXCEPT ![h] =
                    [@ EXCEPT !.image_failed = (fetch # "ok" \/ reply.error),
                              !.image_verdict = IF malicious THEN RetTrue ELSE RetFalse,
                              !.steps = Append(@, "image"),
                              !.pc = IF malicious THEN "done" ELSE "route",
                              !.status = IF malicious THEN "400_image" ELSE @]]
  /\ UNCHANGED << source, rules, action_guardrail, router_agent, call, loaded, seen >>

Route(h) ==
  /\ handler[h].pc = "route"
  /\ LET proposed_action == route(handler[h].prompt)
     IN  handler' = [handler EXCEPT ![h] =
           [@ EXCEPT !.proposed = proposed_action,
                     !.agent_name = AgentName(proposed_action),
                     !.steps = Append(@, "route"),
                     !.pc = "guard"]]
  /\ UNCHANGED << source, rules, action_guardrail, router_agent, call, loaded, seen >>

Guard(h) ==
  /\ handler[h].pc = "guard"
  /\ LET out == is_action_illegal(rules, handler[h].proposed)
         status == GuardResponse(out)
     IN  /\ handler' = [handler EXCEPT ![h] =
               [@ EXCEPT !.guard = out,
                         !.validator = ValidatorReached(rules, handler[h].proposed),
                         !.steps = Append(@, "guard"),
                         !.status = status,
                         !.agent_action = IF status = "Success"
                                          THEN handler[h].proposed
                                          ELSE NoAction,
                         !.pc = "done"]]
         /\ seen' = seen \cup { [action |-> handler[h].proposed, out |-> out] }
         /\ rules' = RulesAfterEvaluation(rules, handler[h].proposed)
  /\ UNCHANGED << source, action_guardrail, router_agent, call, loaded >>

\* the response is sent and the handler is free for the next request
Respond(h) ==
  /\ handler[h].pc = "done"
  /\ handler' = [handler EXCEPT ![h] = IdleHandler]
  /\ UNCHANGED << source, rules, action_guardrail, router_agent, call, loaded, seen >>

(***************************************************************************)
(* Direct calls of the guardrail's methods on a constructed instance.      *)
(***************************************************************************)
CallIsActionIllegal ==
  /\ action_guardrail = "instance"
  /\ call = NoCall
  /\ \E a \in Actions :
       /\ call' = [fn |-> "is_action_illegal", action |-> a,
                   parameters |-> a.parameters, rules |-> NoEntry,
                   out |-> is_action_illegal(rules, a)]
       /\ rules' = RulesAfterEvaluation(rules, a)
  /\ UNCHANGED << source, action_guardrail, router_agent, handler, loaded, seen >>

CallValidateFileReader ==
  /\ action_guardrail = "instance"
  /\ call = NoCall
  /\ \E ps \in ParamSet \ { ParamsAbsent }, e \in RuleLists, p \in RuleLists :
       call' = [fn |-> "_validate_file_reader", action |-> NoAction,
                parameters |-> ps, rules |-> FileReaderRules(e, p),
                out |-> validate_file_reader(ps, FileReaderRules(e, p))]
  /\ UNCHANGED << source, rules, action_guardrail, router_agent, handler, loaded, seen >>

CallValidateDatabaseQuery ==
  /\ action_guardrail = "instance"
  /\ call = NoCall
  /\ \E ps \in ParamSet \ { ParamsAbsent }, k \in RuleLists :
       call' = [fn |-> "_validate_database_query", action |-> NoAction,
                parameters |-> ps, rules |-> DatabaseQueryRules(k),
                out |-> validate_database_query(ps, DatabaseQueryRules(k))]
  /\ UNCHANGED << source, rules, action_guardrail, router_agent, handler, loaded, seen >>

\* the caller has read the outcome; the next call may follow
Return ==
  /\ call # NoCall
  /\ call' = NoCall
  /\ UNCHANGED << source, rules, action_guardrail, router_agent, handler, loaded, seen >>

(***************************************************************************)
(* Specifications.                                                         *)
(***************************************************************************)
\* the service: start-up, then concurrent /invoke handlers
Init == InitWith(PipelineSources)

Next ==
  \/ Startup
  \/ \E h \in Handlers : Receive(h)
  \/ \E h \in Handlers : TextCheck(h)
  \/ \E h \in Handlers : ImageCheck(h)
  \/ \E h \in Handlers : Route(h)
  \/ \E h \in Handlers : Guard(h)
  \/ \E h \in Handlers : Respond(h)

Spec == Init /\ [][Next]_vars

\* the service handling one request after the other, over more prompts
RouterInit == InitWith(PipelineSources)

RouterNext ==
  \/ Startup
  \/ ReceiveFrom(1, RoutePrompts)
  \/ TextCheck(1)
  \/ ImageCheck(1)
  \/ Route(1)
  \/ Guard(1)
  \/ Respond(1)

RouterSpec == RouterInit /\ [][RouterNext]_vars

\* the action guardrail evaluated on arbitrary actions under arbitrary policies
GuardInit == InitWith(GuardSources)

GuardNext == Startup \/ CallIsActionIllegal \/ Return

GuardSpec == GuardInit /\ [][GuardNext]_vars

\* the two validators called with arbitrary parameters and rule records
ValidatorInit == InitWith({ SourceMissing })

ValidatorNext ==
  Startup \/ CallValidateFileReader \/ CallValidateDatabaseQuery \/ Return

ValidatorSpec == ValidatorInit /\ [][ValidatorNext]_vars

(***************************************************************************)
(* Properties.                                                             *)
(***************************************************************************)
Rejections == { "400_text", "400_image", "403", "500" }

\* C1: a handler answers Success (echoing the proposed action) only if the
\* text check returned False, the image check returned False when an image
\* URL was given, and is_action_illegal returned False for the proposed
\* action; if any of the three says otherwise the request ends in a
\* rejection and no action is approved.
C1_SuccessOnlyIfAllPass ==
  \A h \in Handlers :
    LET r == handler[h]
    IN  /\ r.status = "Success" =>
             /\ r.text_verdict = RetFalse
             /\ (Truthy(r.image_url) => r.image_verdict = RetFalse)
             /\ r.guard = RetFalse
             /\ r.agent_action = r.proposed
        /\ (r.text_verdict = RetTrue \/ r.image_verdict = RetTrue
              \/ r.guard \in { RetTrue, AttributeError }) =>
             /\ r.status \in Rejections
             /\ r.agent_action = NoAction
        /\ r.agent_action # NoAction => r.status = "Success"

C1_Witness ==
  \E h1, h2 \in Handlers :
    /\ handler[h1].status = "Success"
    /\ Truthy(handler[h1].image_url)
    /\ handler[h1].agent_action = handler[h1].proposed
    /\ handler[h2].status = "403"

\* C2: whenever is_action_illegal returns False, the action's tool is
\* present, non-empty and a member of the policy's allowed_tools; under a
\* policy mapping an action with an empty or missing tool, or with a tool
\* outside allowed_tools, is illegal whatever its parameters and tool_rules.
C2_LegalImpliesAllowListed ==
  call.fn = "is_action_illegal" =>
    LET t == call.action.tool
        listed == /\ t.kind = "str"
                  /\ t.name # ""
                  /\ rules.kind = "dict"
                  /\ rules.allowed_tools.present
                  /\ t.name \in rules.allowed_tools.items
    IN  /\ call.out = RetFalse => listed
        /\ (rules.kind = "dict" /\ ~listed) => call.out = RetTrue

C2_Witness ==
  /\ call.fn = "is_action_illegal"
  /\ call.action.tool = ToolStr("file_reader")
  /\ rules.kind = "dict"
  /\ "file_reader" \notin rules.allowed_tools.items
  /\ rules.tool_rules.present
  /\ rules.tool_rules.entries["file_reader"].allowed_paths = << << "/" >> >>
  /\ rules.tool_rules.entries["file_reader"].disallowed_extensions = <<>>
  /\ call.action.parameters.path = PyStr(<< "/", "A" >>)
  /\ call.out = RetTrue

\* C3: when the policy source is missing or malformed (unreadable,
\* unparsable, or not parsing to a mapping), the constructor raises nothing
\* and leaves the empty policy, and every action evaluated afterwards is
\* reported illegal.
C3_BadSourceFailsClosed ==
  (source \in BadSources /\ action_guardrail # "unbuilt") =>
    /\ action_guardrail = "instance"
    /\ rules = EmptyPolicy
    /\ (call.fn = "is_action_illegal" => call.out = RetTrue)

\* C4: for every action, well-formed or malformed, is_action_illegal under
\* a policy mapping returns a boolean and never raises.
C4_NeverRaises ==
  (call.fn = "is_action_illegal" /\ rules.kind = "dict") =>
    call.out \in { RetTrue, RetFalse }

\* C5: when file_reader is allow-listed and has a rule record in tool_rules,
\* no file_reader action whose path starts with none of the record's allowed
\* prefixes is legal; in particular none is when no prefix is listed.
C5_NoPrefixNoAccess ==
  ( /\ call.fn = "is_action_illegal"
    /\ call.action.tool = ToolStr("file_reader")
    /\ rules.kind = "dict"
    /\ "file_reader" \in rules.allowed_tools.items
    /\ rules.tool_rules.present
    /\ rules.tool_rules.entries["file_reader"].kind = "dict"
    /\ LET ps == call.action.parameters
           prefixes == rules.tool_rules.entries["file_reader"].allowed_paths
       IN  ~(/\ ps.kind = "dict"
             /\ ps.path.kind = "str"
             /\ \E i \in 1..Len(prefixes) :
                  \E k \in 0..Len(ps.path.chars) :
                    SubSeq(ps.path.chars, 1, k) = prefixes[i]) )
  => call.out # RetFalse

\* C6: the database_query validator reports a string query illegal exactly
\* when it is missing or empty or contains a forbidden keyword as a
\* substring with both sides uppercased, and legal otherwise.
C6_CaseInsensitiveKeywords ==
  ( /\ call.fn = "_validate_database_query"
    /\ call.parameters.kind = "dict"
    /\ call.parameters.query.kind \in { "str", "absent" } )
  => LET q == StrUpper(call.parameters.query.chars)
         kws == call.rules.forbidden_keywords
         hit == \E i \in 1..Len(kws) :
                  \E k \in 0..Len(q) :
                    /\ k + Len(kws[i]) <= Len(q)
                    /\ SubSeq(q, k + 1, k + Len(kws[i])) = StrUpper(kws[i])
     IN  call.out = IF q = <<>> \/ hit THEN RetTrue ELSE RetFalse

\* C7: the file_reader validator returns legal exactly when the path is a
\* non-empty string that ends with none of the disallowed extensions and
\* starts with at least one allowed prefix (both matched exactly, case
\* included); no other parameter key changes the verdict.
C7_FileReaderVerdict ==
  call.fn = "_validate_file_reader" =>
    LET ps == call.parameters
        exts == call.rules.disallowed_extensions
        prefixes == call.rules.allowed_paths
        n == Len(ps.path.chars)
        legal ==
          /\ ps.kind = "dict"
          /\ ps.path.kind = "str"
          /\ n > 0
          /\ \A i \in 1..Len(exts) :
               \A k \in 0..n : SubSeq(ps.path.chars, k + 1, n) # exts[i]
          /\ \E i \in 1..Len(prefixes) :
               \E k \in 0..n : SubSeq(ps.path.chars, 1, k) = prefixes[i]
    IN  (call.out = RetFalse) <=> legal

C7_Witness ==
  /\ call.fn = "_validate_file_reader"
  /\ call.out = RetFalse
  /\ call.parameters.other # Absent
  /\ call.parameters.path = PyStr(<< "/", "A" >>)
  /\ call.rules.disallowed_extensions = << << "a" >>, << "/" >> >>
  /\ call.rules.allowed_paths = << << "a" >>, << "/" >> >>

\* C8: whenever the moderation call or the image fetch of a request fails,
\* the input check's verdict is True (malicious), the request is rejected
\* and no action is approved.
C8_FailedCheckIsMalicious ==
  \A h \in Handlers :
    LET r == handler[h]
    IN  /\ r.text_failed =>
             /\ r.text_verdict = RetTrue
             /\ r.status = "400_text"
             /\ r.agent_action = NoAction
        /\ r.image_failed =>
             /\ r.image_verdict = RetTrue
             /\ r.status = "400_image"
             /\ r.agent_action = NoAction

C8_Witness ==
  \E h1, h2 \in Handlers :
    /\ handler[h1].text_failed
    /\ handler[h1].pc = "done"
    /\ handler[h2].image_failed
    /\ handler[h2].pc = "done"

\* C9: evaluations never change the loaded policy: at any point of any
\* interleaving of the handlers the shared policy is the one the constructor
\* left, and two evaluations of the same action gave the same outcome.
C9_PolicyReadOnly ==
  /\ action_guardrail = "instance" => rules = loaded
  /\ \A x, y \in seen : x.action = y.action => x.out = y.out

C9_Witness ==
  \E h1, h2 \in Handlers :
    /\ h1 # h2
    /\ handler[h1].pc = "done"
    /\ handler[h2].pc = "guard"
    /\ handler[h1].guard = RetFalse
    /\ handler[h2].proposed = handler[h1].proposed
    /\ [action |-> handler[h2].proposed, out |-> RetFalse] \in seen

\* C10: a tool that is in allowed_tools and has no entry in tool_rules is
\* legal for every parameters value, file_reader and database_query
\* included.
C10_NoEntryIsLegal ==
  ( /\ call.fn = "is_action_illegal"
    /\ rules.kind = "dict"
    /\ call.action.tool.kind = "str"
    /\ call.action.tool.name # ""
    /\ call.action.tool.name \in rules.allowed_tools.items
    /\ \/ ~rules.tool_rules.present
       \/ rules.tool_rules.entries[call.action.tool.name].kind = "absent" )
  => call.out = RetFalse

C10_Witness ==
  /\ call.fn = "is_action_illegal"
  /\ call.action.tool = ToolStr("database_query")
  /\ "database_query" \in rules.allowed_tools.items
  /\ rules.tool_rules.present
  /\ rules.tool_rules.entries["database_query"].kind = "absent"
  /\ rules.tool_rules.entries["file_reader"].kind = "dict"
  /\ call.action.parameters = ParamsNone
  /\ call.out = RetFalse

\* C11: a tool that is allow-listed and has an entry in tool_rules but is
\* neither file_reader nor database_query is legal for every parameters
\* value and every content of that entry.
C11_RulesWithoutValidatorAreInert ==
  ( /\ call.fn = "is_action_illegal"
    /\ rules.kind = "dict"
    /\ call.action.tool.kind = "str"
    /\ call.action.tool.name # ""
    /\ call.action.tool.name \notin { "file_reader", "database_query" }
    /\ call.action.tool.name \in rules.allowed_tools.items
    /\ rules.tool_rules.present
    /\ rules.tool_rules.entries[call.action.tool.name].kind = "dict" )
  => call.out = RetFalse

C11_Witness ==
  /\ call.fn = "is_action_illegal"
  /\ call.action.tool = ToolStr("web_search")
  /\ "web_search" \in rules.allowed_tools.items
  /\ rules.tool_rules.present
  /\ rules.tool_rules.entries["web_search"] = DenyAllRules
  /\ call.action.parameters = ParamsNone
  /\ call.out = RetFalse

\* C12: in every handling of a request the calls occur in the order text
\* check, image check (only when an image URL is given), router, action
\* guardrail; once an input check has reported malicious neither the router
\* nor the action guardrail is called for that request, and when the action
\* guardrail runs every moderation call of the request has returned.
C12_StepOrder ==
  \A h \in Handlers :
    LET r == handler[h]
        order == IF Truthy(r.image_url)
                 THEN << "text", "image", "route", "guard" >>
                 ELSE << "text", "route", "guard" >>
        called(s) == \E i \in 1..Len(r.steps) : r.steps[i] = s
    IN  /\ Len(r.steps) <= Len(order)
        /\ \A i \in 1..Len(r.steps) : i <= Len(order) => r.steps[i] = order[i]
        /\ (r.text_verdict = RetTrue \/ r.image_verdict = RetTrue) =>
             ~called("route") /\ ~called("guard")
        /\ called("guard") =>
             /\ r.text_verdict = RetFalse
             /\ Truthy(r.image_url) => r.image_verdict = RetFalse

C12_Witness ==
  \E h1, h2 \in Handlers :
    /\ handler[h1].steps = << "text", "image", "route", "guard" >>
    /\ handler[h2].steps = << "text", "image" >>
    /\ handler[h2].image_verdict = RetTrue
    /\ handler[h2].pc = "done"

\* C13: for every prompt the action the router returns has tool web_search
\* or creative_writing, so in every handling of a request the agent name is
\* ResearchAgent or CreativeAgent, never Unknown, and the action guardrail
\* reaches neither the file_reader nor the database_query validator.
C13_RouterToolsOnly ==
  \A h \in Handlers :
    LET r == handler[h]
    IN  /\ (\E i \in 1..Len(r.steps) : r.steps[i] = "route") =>
             /\ r.proposed.tool \in { ToolStr("web_search"), ToolStr("creative_writing") }
             /\ r.proposed.tool = ToolStr("web_search") => r.agent_name = "ResearchAgent"
             /\ r.proposed.tool = ToolStr("creative_writing") => r.agent_name = "CreativeAgent"
             /\ r.agent_name \in { "ResearchAgent", "CreativeAgent" }
        /\ r.validator = "none"

C13_Witness ==
  \E h \in Handlers :
    /\ handler[h].prompt = << "P", "O", "E", "M" >>
    /\ handler[h].agent_name = "CreativeAgent"
    /\ handler[h].steps = << "text", "route", "guard" >>
    /\ rules.kind = "dict"
    /\ "database_query" \in rules.allowed_tools.items
    /\ rules.tool_rules.present
    /\ rules.tool_rules.entries["database_query"].kind = "dict"
    /\ [action |-> ResearchAgent_run(<< "j", "o", "k" >>), out |-> RetFalse] \in seen

=============================================================================
